---------------------------- MODULE Spec2Model ----------------------------
(***************************************************************************)
(* A model of the HTTP/1.1 server: the request parser (src/src/request.rs), *)
(* the route dispatcher and response serializer (src/src/handler.rs) and   *)
(* the accept loop that spawns one task per connection (src/src/main.rs).  *)
(*                                                                         *)
(* A byte is a one-character string; a byte string is a sequence of bytes. *)
(***************************************************************************)
EXTENDS Integers, Sequences, FiniteSets, TLC

(***************************************************************************)
(* Bounds of the model.                                                    *)
(***************************************************************************)
\* the most connections one behaviour accepts
MaxClients == 2
\* the most network segments the header bytes of one request arrive in
MaxSegs == 2
\* the most bytes one poll of a ReaderStream yields (its buffer capacity)
ChunkCap == 2

(***************************************************************************)
(* Bytes and byte strings.                                                 *)
(***************************************************************************)
Chars(s) == [i \in 1..Len(s) |-> SubSeq(s, i, i)]

CR == "\r"
LF == "\n"
CRLF == <<CR, LF>>

Upper == Chars("ABCDEFGHIJKLMNOPQRSTUVWXYZ")
Lower == Chars("abcdefghijklmnopqrstuvwxyz")
Digits == Chars("0123456789")

Range(s) == {s[i] : i \in DOMAIN s}

Min(a, b) == IF a < b THEN a ELSE b

\* nom::character::is_alphabetic
is_alphabetic(c) == c \in Range(Upper) \cup Range(Lower)

is_ascii_digit(c) == c \in Range(Digits)

to_ascii_lowercase(c) ==
    IF c \in Range(Upper)
    THEN Lower[CHOOSE i \in DOMAIN Upper : Upper[i] = c]
    ELSE c

LowerStr(s) == [i \in DOMAIN s |-> to_ascii_lowercase(s[i])]

eq_ignore_ascii_case(a, b) == LowerStr(a) = LowerStr(b)

starts_with(s, p) == Len(s) >= Len(p) /\ SubSeq(s, 1, Len(p)) = p

ends_with(s, p) ==
    Len(s) >= Len(p) /\ SubSeq(s, Len(s) - Len(p) + 1, Len(s)) = p

Drop(s, n) == SubSeq(s, n + 1, Len(s))

Take(s, n) == SubSeq(s, 1, Min(n, Len(s)))

RECURSIVE Concat(_)
Concat(ss) == IF ss = <<>> THEN <<>> ELSE Head(ss) \o Concat(Tail(ss))

\* the length of the longest prefix of s whose bytes all satisfy P
PrefixLen(s, P(_)) ==
    LET bad == {i \in DOMAIN s : ~P(s[i])}
    IN  IF bad = {} THEN Len(s) ELSE (CHOOSE i \in bad : \A j \in bad : i <= j) - 1

\* the index of the first occurrence of p in s, 0 when there is none
FindSub(s, p) ==
    LET hits == {i \in 1..(Len(s) - Len(p) + 1) : SubSeq(s, i, i + Len(p) - 1) = p}
    IN  IF hits = {} THEN 0 ELSE CHOOSE i \in hits : \A j \in hits : i <= j

\* the decimal digits of a natural number (Display for usize / u64)
RECURSIVE Dec(_)
Dec(n) == IF n < 10 THEN <<Digits[n + 1]>> ELSE Dec(n \div 10) \o <<Digits[(n % 10) + 1]>>

DigitVal(c) == (CHOOSE i \in DOMAIN Digits : Digits[i] = c) - 1


(***************************************************************************)
(* The grammar: nom combinators over byte strings.  A parser returns       *)
(* [ok |-> TRUE, rest, val] or [ok |-> FALSE, err], where err is "Error"   *)
(* (nom::Err::Error, a value handed back to the caller) or "panic" (the    *)
(* thread unwinds through unimplemented!()).                               *)
(***************************************************************************)
Ok(rest, val) == [ok |-> TRUE, rest |-> rest, val |-> val]
Fail(err) == [ok |-> FALSE, err |-> err]

\* nom::bytes::complete::take_while1
TakeN(s, n) == IF n = 0 THEN Fail("Error") ELSE Ok(Drop(s, n), Take(s, n))
take_while1(s, P(_)) == TakeN(s, PrefixLen(s, P))

\* nom::bytes::complete::tag
tag(s, t) == IF starts_with(s, t) THEN Ok(Drop(s, Len(t)), t) ELSE Fail("Error")

\* nom::character::complete::space1: one or more spaces or tabs
IsSpace(c) == c \in {" ", "\t"}
space1(s) == take_while1(s, IsSpace)

\* nom::character::complete::crlf
crlf(s) == tag(s, CRLF)

\* the methods http::Method knows by name; any other token is kept as an
\* extension method, so Method::from_bytes accepts every alphabetic token
StandardMethods ==
    {Chars("GET"), Chars("POST"), Chars("PUT"), Chars("DELETE"), Chars("HEAD"),
     Chars("OPTIONS"), Chars("CONNECT"), Chars("PATCH"), Chars("TRACE")}

MethodFromBytes(m) == [ok |-> m # <<>>, val |-> m]

\* http::Uri::try_from, for the request targets of the model: an origin-form
\* target (a path starting with "/") is accepted, anything else refused
UriTryFrom(u) == [ok |-> u # <<>> /\ Head(u) = "/", val |-> u]

IsMethodByte(c) == is_alphabetic(c)
NotSpace(c) == c # " "
IsVersionByte(c) == is_ascii_digit(c) \/ c = "."
NotColon(c) == c # ":"
NotCR(c) == c # CR

\* the three tokens of the start line: tuple((method, uri, version)) of
\* parse_start_line, before map_res converts them.  Each step of the
\* sequence hands the tokens recognised so far to the next:
\* terminated(preceded(tag("HTTP/"), version), crlf) ...
SLCrlf(m, u, v, e) ==
    IF e.ok THEN Ok(e.rest, [method |-> m, uri |-> u, version |-> v])
    ELSE Fail("Error")
SLVersion(m, u, v) == IF v.ok THEN SLCrlf(m, u, v.val, crlf(v.rest)) ELSE Fail("Error")
SLHttp(m, u, h) ==
    IF h.ok THEN SLVersion(m, u, take_while1(h.rest, IsVersionByte)) ELSE Fail("Error")
\* ... terminated(take_while1(|c| c != b' '), space1) ...
SLSpace2(m, u, sp) ==
    IF sp.ok THEN SLHttp(m, u, tag(sp.rest, Chars("HTTP/"))) ELSE Fail("Error")
SLUri(m, u) == IF u.ok THEN SLSpace2(m, u.val, space1(u.rest)) ELSE Fail("Error")
\* ... terminated(take_while1(is_alphabetic), space1)
SLSpace1(m, sp) ==
    IF sp.ok THEN SLUri(m, take_while1(sp.rest, NotSpace)) ELSE Fail("Error")
SLMethod(m) == IF m.ok THEN SLSpace1(m.val, space1(m.rest)) ELSE Fail("Error")
StartLineTokens(input) == SLMethod(take_while1(input, IsMethodByte))

\* the version match of parse_start_line: b"1.1" or unimplemented!()
VersionOf(v) == IF v = Chars("1.1") THEN "HTTP_11" ELSE "panic"

\* the closure map_res applies to the three tokens
StartLineConvert(rest, method, uri, version) ==
    IF ~method.ok \/ ~uri.ok THEN Fail("Error")
    ELSE IF version = "panic" THEN Fail("panic")
    ELSE Ok(rest, [method |-> method.val, uri |-> uri.val, version |-> version])

StartLineMapRes(t) ==
    IF ~t.ok THEN Fail("Error")
    ELSE StartLineConvert(t.rest, MethodFromBytes(t.val.method),
                          UriTryFrom(t.val.uri), VersionOf(t.val.version))

\* Parts::parse_start_line
parse_start_line(input) == StartLineMapRes(StartLineTokens(input))

\* http::HeaderName::try_from: token bytes only (of the bytes of the model:
\* letters, digits, "-", "_", "."), stored in lower case
IsHeaderNameByte(c) ==
    is_alphabetic(c) \/ is_ascii_digit(c) \/ c \in {"-", "_", "."}
HeaderNameTryFrom(k) ==
    [ok |-> k # <<>> /\ \A i \in DOMAIN k : IsHeaderNameByte(k[i]), val |-> LowerStr(k)]

\* http::HeaderValue::try_from: no control bytes but the tab
IsHeaderValueByte(c) == c \notin {CR, LF}
HeaderValueTryFrom(v) ==
    [ok |-> \A i \in DOMAIN v : IsHeaderValueByte(v[i]), val |-> v]

\* one header line: map_res(separated_pair(key, tag(": "), value), ..),
\* value being terminated(take_while1(|c| c != b'\r'), crlf)
HLConvert(rest, name, value) ==
    IF name.ok /\ value.ok THEN Ok(rest, <<name.val, value.val>>) ELSE Fail("Error")
HLCrlf(k, v, e) ==
    IF e.ok THEN HLConvert(e.rest, HeaderNameTryFrom(k), HeaderValueTryFrom(v))
    ELSE Fail("Error")
HLValue(k, v) == IF v.ok THEN HLCrlf(k, v.val, crlf(v.rest)) ELSE Fail("Error")
HLSep(k, sep) == IF sep.ok THEN HLValue(k, take_while1(sep.rest, NotCR)) ELSE Fail("Error")
HLKey(k) == IF k.ok THEN HLSep(k.val, tag(k.rest, Chars(": "))) ELSE Fail("Error")
header_line(input) == HLKey(take_while1(input, NotColon))

\* a header map: a function from lower-case names to values
NoHeaders == <<>>
HeaderInsert(h, k, v) == [x \in (DOMAIN h) \cup {k} |-> IF x = k THEN v ELSE h[x]]
HasHeader(h, k) == k \in DOMAIN h

\* fold_many0(comb, HeaderMap::new, insert): header lines until one fails
RECURSIVE fold_many0(_, _)
FoldStep(input, acc, r) ==
    IF r.ok THEN fold_many0(r.rest, HeaderInsert(acc, r.val[1], r.val[2]))
    ELSE Ok(input, acc)
fold_many0(input, acc) == FoldStep(input, acc, header_line(input))

\* Parts::parse_header_lines: terminated(headers, crlf)
HeadersCrlf(headers, e) == IF e.ok THEN Ok(e.rest, headers) ELSE Fail("Error")
HeadersEnd(h) == HeadersCrlf(h.val, crlf(h.rest))
parse_header_lines(input) == HeadersEnd(fold_many0(input, NoHeaders))

\* Parts::parse: pair(start line, header lines), then ensure!(rest.is_empty())
PartsEnsure(start, h) ==
    IF ~h.ok THEN Fail("Error")
    ELSE IF h.rest # <<>> THEN Fail("Error")
    ELSE Ok(<<>>, [method |-> start.method, uri |-> start.uri,
                   version |-> start.version, headers |-> h.val])
PartsPair(s) == IF ~s.ok THEN s ELSE PartsEnsure(s.val, parse_header_lines(s.rest))
PartsParse(bytes) == PartsPair(parse_start_line(bytes))

\* str::parse::<u64>: an optional "+", then one or more digits (the values of
\* the model stay far below 2^64, where the parse would refuse)
RECURSIVE DigitsValue(_, _)
DigitsValue(s, acc) ==
    IF s = <<>> THEN acc ELSE DigitsValue(Tail(s), acc * 10 + DigitVal(Head(s)))
U64(d) ==
    IF d # <<>> /\ (\A i \in DOMAIN d : is_ascii_digit(d[i]))
    THEN [some |-> TRUE, val |-> DigitsValue(d, 0)]
    ELSE [some |-> FALSE, val |-> 0]
ParseU64(s) == U64(IF s # <<>> /\ Head(s) = "+" THEN Tail(s) ELSE s)

CONTENT_LENGTH == Chars("content-length")
ACCEPT_ENCODING == Chars("accept-encoding")
USER_AGENT == Chars("user-agent")
CONTENT_TYPE == Chars("content-type")
CONTENT_ENCODING == Chars("content-encoding")

\* the length of the body reader RequestParser::parse attaches, 0 for None:
\* headers.get(CONTENT_LENGTH) .. parse::<u64>().ok(), then filter(|x| *x != 0)
ContentLength(headers) ==
    IF HasHeader(headers, CONTENT_LENGTH)
    THEN ParseU64(headers[CONTENT_LENGTH])
    ELSE [some |-> FALSE, val |-> 0]
BodyLen(headers) == ContentLength(headers).val

(***************************************************************************)
(* The dispatcher's pure parts and the response model (handler.rs).        *)
(***************************************************************************)
TEXT_PLAIN == Chars("text/plain")
OCTET_STREAM == Chars("application/octet-stream")
GZIP == Chars("gzip")

\* http::Uri::path: the target up to its query
PathOf(uri) ==
    LET q == FindSub(uri, <<"?">>)
    IN  IF q = 0 THEN uri ELSE Take(uri, q - 1)

\* [u8]::split_str / str::split: the pieces between the occurrences of sep
RECURSIVE split_str(_, _)
split_str(s, sep) ==
    LET i == FindSub(s, sep)
    IN  IF i = 0 THEN <<s>>
        ELSE <<Take(s, i - 1)>> \o split_str(Drop(s, i - 1 + Len(sep)), sep)

\* path().split('/').skip(1).filter(|x| !x.is_empty())
path_parts(uri) ==
    LET pieces == Tail(split_str(PathOf(uri), <<"/">>))
    IN  SelectSeq(pieces, LAMBDA x : x # <<>>)

\* the condition of the echo route: some piece of the Accept-Encoding value,
\* split on ", ", equals "gzip" ignoring ASCII case
accepts_gzip(headers) ==
    /\ HasHeader(headers, ACCEPT_ENCODING)
    /\ LET pieces == split_str(headers[ACCEPT_ENCODING], Chars(", "))
       IN  \E i \in DOMAIN pieces : eq_ignore_ascii_case(pieces[i], GZIP)

\* encode_sync: the gzip framing of flate2's GzEncoder, kept abstract: a ten
\* byte member header, the deflate stream (one coded symbol per input byte and
\* an end-of-block symbol), and the eight byte trailer (CRC-32, ISIZE)
GzHeader == <<"1f", "8b", "08", "00", "00", "00", "00", "00", "00", "ff">>
GzTrailer == <<"crc0", "crc1", "crc2", "crc3", "isz0", "isz1", "isz2", "isz3">>
GzSymbol(c) == "~" \o c
encode_sync(bytes) ==
    GzHeader \o [i \in DOMAIN bytes |-> GzSymbol(bytes[i])] \o <<"eob">> \o GzTrailer

\* the body variants of a response (enum BodyType)
EmptyBody == [kind |-> "Empty", bytes |-> <<>>, file |-> <<>>]
\* BodyType::full
full(chunk) == [kind |-> "Full", bytes |-> chunk, file |-> <<>>]
\* BodyType::chunked over an open file
chunked(name) == [kind |-> "Chunked", bytes |-> <<>>, file |-> name]

NoResponse == [status |-> 0, headers |-> <<>>, body |-> EmptyBody]
Response(status, headers, body) == [status |-> status, headers |-> headers, body |-> body]

\* not_found
not_found == Response(404, <<>>, full(Chars("Not Found")))

\* the echo arm of handle_request
echo_build(encoding, content) ==
    Response(200,
             <<<<CONTENT_TYPE, TEXT_PLAIN>>>> \o encoding
               \o <<<<CONTENT_LENGTH, Dec(Len(content))>>>>,
             full(content))
echo_response(headers, arg) ==
    IF accepts_gzip(headers)
    THEN echo_build(<<<<CONTENT_ENCODING, GZIP>>>>, encode_sync(arg))
    ELSE echo_build(<<>>, arg)

\* the user-agent arm of handle_request
user_agent_response(headers) ==
    IF HasHeader(headers, USER_AGENT)
    THEN Response(200,
                  <<<<CONTENT_TYPE, TEXT_PLAIN>>, <<CONTENT_LENGTH, Dec(Len(headers[USER_AGENT]))>>>>,
                  full(headers[USER_AGENT]))
    ELSE not_found

\* StatusCode::canonical_reason, for the codes the dispatcher produces
canonical_reason(status) ==
    CASE status = 200 -> Chars("OK")
      [] status = 201 -> Chars("Created")
      [] status = 404 -> Chars("Not Found")

\* the events a sink records: a write_all of some bytes, or a flush
WriteEv(data) == [op |-> "write", data |-> data]
FlushEv == [op |-> "flush", data |-> <<>>]

\* send_response up to the blank line: the writes of the status line ...
status_line_writes(resp) ==
    << WriteEv(Chars("HTTP/")), WriteEv(Chars("1.1")), WriteEv(<<" ">>),
       WriteEv(Dec(resp.status)), WriteEv(<<" ">>),
       WriteEv(canonical_reason(resp.status)), WriteEv(CRLF) >>

\* ... and of the header lines, in the map's iteration order
RECURSIVE header_writes(_)
header_writes(hs) ==
    IF hs = <<>> THEN <<>>
    ELSE << WriteEv(Head(hs)[1]), WriteEv(Chars(": ")), WriteEv(Head(hs)[2]), WriteEv(CRLF) >>
         \o header_writes(Tail(hs))

head_writes(resp) ==
    status_line_writes(resp) \o header_writes(resp.headers) \o <<WriteEv(CRLF)>>

\* the bytes a sequence of events put on the wire
RECURSIVE BytesOf(_)
BytesOf(evs) == IF evs = <<>> THEN <<>> ELSE Head(evs).data \o BytesOf(Tail(evs))

\* the mutant of WriteAt: every write lands at the start of the file
WriteAtStart(content, pos, data) == data \o Drop(content, Len(data))

\* a write of data at offset pos of a file: a gap is filled with NUL bytes
NUL == "NUL"
WriteAt(content, pos, data) ==
    LET padded == content \o [i \in 1..(pos - Len(content)) |-> NUL]
    IN  Take(padded, pos) \o data \o Drop(padded, pos + Len(data))


\* the outcome of handle_request's match on the path and the method, before
\* any byte is written: a response to send, an error returned with `?` or
\* bail!, a panic (unimplemented!()), or the POST arm's store of the body
Respond(resp) == [kind |-> "respond", resp |-> resp, err |-> "", name |-> <<>>]
Bail(err) == [kind |-> "fail", resp |-> NoResponse, err |-> err, name |-> <<>>]
Unimplemented == [kind |-> "panic", resp |-> NoResponse, err |-> "panic", name |-> <<>>]
Store(name) == [kind |-> "store", resp |-> NoResponse, err |-> "", name |-> name]

files_get(name, files) ==
    IF name \notin DOMAIN files THEN Respond(not_found)
    ELSE Respond(Response(200,
                          << <<CONTENT_TYPE, OCTET_STREAM>>,
                             <<CONTENT_LENGTH, Dec(Len(files[name]))>> >>,
                          chunked(name)))

\* the mutant of files_post: the file is opened before the body is looked at
FilesPostOpensFirst(name, bodyLen) == Store(name)

files_post(name, bodyLen) == IF bodyLen = 0 THEN Bail("MissingBody") ELSE Store(name)

files_route(r, parts, dir, files) ==
    IF Len(parts) < 2 THEN Bail("MissingFileName")
    ELSE IF ~dir THEN Bail("NoDirectory")
    ELSE IF r.method = Chars("GET") THEN files_get(parts[2], files)
    ELSE IF r.method = Chars("POST") THEN files_post(parts[2], r.bodyLen)
    ELSE Unimplemented

route(r, parts, first, dir, files) ==
    CASE first = <<>> -> Respond(Response(200, <<>>, EmptyBody))
      [] first = Chars("echo") ->
            IF Len(parts) < 2 THEN Bail("MissingArg")
            ELSE Respond(echo_response(r.headers, parts[2]))
      [] first = Chars("user-agent") -> Respond(user_agent_response(r.headers))
      [] first = Chars("files") -> files_route(r, parts, dir, files)
      [] OTHER -> Respond(not_found)

FirstOf(parts) == IF parts = <<>> THEN <<>> ELSE parts[1]
route_parts(r, parts, dir, files) == route(r, parts, FirstOf(parts), dir, files)
dispatch(r, dir, files) == route_parts(r, path_parts(r.uri), dir, files)

(***************************************************************************)
(* The clients of a behaviour.  A client is the byte stream it sends, cut  *)
(* into the segments the socket's reads will return, followed by the end   *)
(* of the stream, and failAt: the number of the chunk pull at which the    *)
(* chunk source (socket or file) reports an I/O error, 0 for never.        *)
(***************************************************************************)
RECURSIVE SplitsN(_, _)
SplitsN(b, n) ==
    IF b = <<>> THEN {<<>>}
    ELSE IF n <= 1 THEN {<<b>>}
    ELSE {<<b>>} \cup
         UNION {{<<Take(b, i)>> \o t : t \in SplitsN(Drop(b, i), n - 1)} : i \in 1..(Len(b) - 1)}

Client(segs, failAt) == [segs |-> segs, failAt |-> failAt]

Whole(str) == Client(IF str = "" THEN <<>> ELSE <<Chars(str)>>, 0)

\* requests whose bytes arrive cut in every way into at most MaxSegs segments
SplitRequests ==
    { "GET / HTTP/1.1\r\n\r\n",
      "GET / HTTP/1.1\r\nHost: x\r\n",
      "POST /files/a HTTP/1.1\r\nContent-Length: 3\r\n\r\nxyz" }

\* requests that arrive in one segment
WholeRequests ==
    { "",
      "GET / HT",
      "GET / HTTP/1.1\n\n",
      "GET /\r\n\r\n",
      "GET / HTTP/1.1\r\nbad header\r\n\r\n",
      "GET / HTTP/1.0\r\n\r\n",
      "FOO / HTTP/1.1\r\n\r\n",
      "get /files/a HTTP/1.1\r\n\r\n",
      "PUT /files/a HTTP/1.1\r\n\r\n",
      "GET /nope HTTP/1.1\r\n\r\n",
      "GET /echo HTTP/1.1\r\n\r\n",
      "GET /echo/abc HTTP/1.1\r\n\r\n",
      "GET /echo/ab HTTP/1.1\r\nAccept-Encoding: gzip\r\n\r\n",
      "GET /echo/ab HTTP/1.1\r\nAccept-Encoding: br, GZip\r\n\r\n",
      "GET /echo/ab HTTP/1.1\r\nAccept-Encoding: deflate,gzip\r\n\r\n",
      "GET /echo/ab HTTP/1.1\r\nAccept-Encoding: gzip ,br\r\n\r\n",
      "GET /echo/ab HTTP/1.1\r\nAccept-Encoding: br, gzipped\r\n\r\n",
      "GET /echo/ab HTTP/1.1\r\naccept-encoding: br\r\nAccept-Encoding: gzip\r\n\r\n",
      "GET /user-agent HTTP/1.1\r\nUser-Agent: t/1.0\r\n\r\n",
      "GET /user-agent HTTP/1.1\r\nHost: x\r\n\r\n",
      "GET /files HTTP/1.1\r\n\r\n",
      "GET /files/a HTTP/1.1\r\n\r\n",
      "GET /files/b HTTP/1.1\r\n\r\n",
      "POST /files/a HTTP/1.1\r\n\r\nxyz",
      "POST /files/a HTTP/1.1\r\nContent-Length: 0\r\n\r\n",
      "POST /files/a HTTP/1.1\r\nContent-Length: 2\r\n\r\nxyz",
      "POST /files/a HTTP/1.1\r\nContent-Length: 5\r\n\r\nxyz",
      "POST /files/a HTTP/1.1\r\nContent-Length: +3\r\n\r\nxyz",
      "POST /files/a HTTP/1.1\r\nContent-Length: abc\r\n\r\nxyz",
      "POST /files/a HTTP/1.1\r\nContent-Length: -1\r\n\r\nxyz" }

\* requests whose chunk source may fail
FaultyRequests ==
    { "GET /files/a HTTP/1.1\r\n\r\n",
      "POST /files/a HTTP/1.1\r\nContent-Length: 3\r\n\r\nxyz" }

\* the most chunk pulls a fault is injected at
MaxFaultAt == 2

SplitClients ==
    UNION {{Client(segs, 0) : segs \in SplitsN(Chars(str), MaxSegs)} : str \in SplitRequests}

WholeClients ==
    {Whole(str) : str \in WholeRequests}
    \cup {Client(<<Chars(str)>>, k) : str \in FaultyRequests, k \in 1..MaxFaultAt}

\* the clients of the behaviours with several connections
ConcurrentClients ==
    { Whole("GET /\r\n\r\n"),
      Whole("GET / HT"),
      Whole("POST /files/a HTTP/1.1\r\nContent-Length: 3\r\n\r\nxyz"),
      Whole("GET /files/a HTTP/1.1\r\n\r\n") }

Clients == SplitClients \cup WholeClients \cup ConcurrentClients

\* the process arguments and the file system a behaviour starts from
NoDirectoryEnv == [directory |-> FALSE, dir |-> FALSE, files |-> <<>>]
FreshEnv == [directory |-> TRUE, dir |-> FALSE, files |-> <<>>]
UsedEnv == [directory |-> TRUE, dir |-> TRUE, files |-> [n \in {Chars("a")} |-> Chars("old!!")]]

Scenario(env, clients) == [env |-> env, clients |-> clients]

\* a behaviour serves one client, or several drawn from ConcurrentClients
Scenarios ==
    {Scenario(e, <<cl>>) : e \in {NoDirectoryEnv, FreshEnv, UsedEnv}, cl \in WholeClients}
    \cup {Scenario(UsedEnv, <<cl>>) : cl \in SplitClients}
    \cup {Scenario(e, w) : e \in {FreshEnv, UsedEnv},
                           w \in UNION {[1..n -> ConcurrentClients] : n \in 2..MaxClients}}

(***************************************************************************)
(* The state.                                                              *)
(***************************************************************************)
Conns == 1..MaxClients

VARIABLES
    directory,  \* ARGUMENTS.directory is Some
    fs,         \* the file system: [dir: the base directory exists, files: name -> bytes]
    listening,  \* main's accept loop is running
    backlog,    \* the clients that have connected and are not accepted yet
    input,      \* per connection: the client it serves
    pc,         \* per connection: where its task stands
    sock,       \* per connection: the segments the socket has still to deliver
    rbuf,       \* per connection: the bytes the BufReader holds and has not handed out
    buf,        \* per connection: RequestParser::parse's accumulated buf
    nread,      \* per connection: the bytes the running read_until call has read
    req,        \* per connection: the parsed Request (bodyLen 0: body is None)
    resp,       \* per connection: the Response the dispatcher built
    chunk,      \* per connection: the chunk pulled and not yet written
    pulled,     \* per connection: the chunks the chunk source has produced
    written,    \* per connection: the chunks write_body_to has written to its sink
    out,        \* per connection: the writes and flushes on the response sink
    result,     \* per connection: how the task ended
    after       \* per connection: the tasks that had ended when handle_request began

vars == <<directory, fs, listening, backlog, input, pc, sock, rbuf, buf, nread,
          req, resp, chunk, pulled, written, out, result, after>>

NoRequest == [method |-> <<>>, uri |-> <<>>, version |-> "", headers |-> <<>>, bodyLen |-> 0]
NoClient == Client(<<>>, 0)

Terminal == {"done", "failed", "panicked"}

Init ==
    /\ \E sc \in Scenarios :
         /\ directory = sc.env.directory
         /\ fs = [dir |-> sc.env.dir, files |-> sc.env.files]
         /\ backlog = sc.clients
    /\ listening = TRUE
    /\ input = [c \in Conns |-> NoClient]
    /\ pc = [c \in Conns |-> "listen"]
    /\ sock = [c \in Conns |-> <<>>]
    /\ rbuf = [c \in Conns |-> <<>>]
    /\ buf = [c \in Conns |-> <<>>]
    /\ nread = [c \in Conns |-> 0]
    /\ req = [c \in Conns |-> NoRequest]
    /\ resp = [c \in Conns |-> NoResponse]
    /\ chunk = [c \in Conns |-> <<>>]
    /\ pulled = [c \in Conns |-> <<>>]
    /\ written = [c \in Conns |-> <<>>]
    /\ out = [c \in Conns |-> <<>>]
    /\ result = [c \in Conns |-> ""]
    /\ after = [c \in Conns |-> {}]

(***************************************************************************)
(* main: the accept loop spawns one task per accepted connection.          *)
(***************************************************************************)
\* the mutant of TaskEnds: a task's Err or panic propagates into main, which
\* leaves its loop
TaskEndsStopsListener(c, how) == listening' = (listening /\ how \in {"", "Ok"})

\* how a task's end reaches the rest of the process: the spawned future's
\* result, an Err or a panic included, stays in its own task
TaskEnds(c, how) == listening' = listening

Accept(c) ==
    /\ listening
    /\ backlog # <<>>
    /\ pc[c] = "listen"
    /\ \A d \in Conns : d < c => pc[d] # "listen"
    /\ backlog' = Tail(backlog)
    /\ input' = [input EXCEPT ![c] = Head(backlog)]
    /\ sock' = [sock EXCEPT ![c] = Head(backlog).segs]
    /\ pc' = [pc EXCEPT ![c] = "read"]
    /\ UNCHANGED <<directory, fs, listening, rbuf, buf, nread, req, resp, chunk,
                   pulled, written, out, result, after>>

(***************************************************************************)
(* RequestParser::parse.                                                   *)
(***************************************************************************)
CRLFCRLF == CRLF \o CRLF

\* the loop's exit test
HeaderComplete(b) == ends_with(b, CRLFCRLF)

\* what parse returns once the loop has broken: Ok(Request { parts, body }),
\* the error of Parts::parse, or the panic that unwinds through it
ParseResult(p) ==
    IF p.ok
    THEN [pc |-> "handle", result |-> "",
          req |-> [method |-> p.val.method, uri |-> p.val.uri,
                   version |-> p.val.version, headers |-> p.val.headers,
                   bodyLen |-> BodyLen(p.val.headers)]]
    ELSE IF p.err = "panic"
    THEN [pc |-> "panicked", result |-> "panic", req |-> NoRequest]
    ELSE [pc |-> "failed", result |-> "ParseFailure", req |-> NoRequest]

ParseOutcome(b) == ParseResult(PartsParse(b))

ParseReturns(c, o) ==
    /\ pc' = [pc EXCEPT ![c] = o.pc]
    /\ result' = [result EXCEPT ![c] = o.result]
    /\ req' = [req EXCEPT ![c] = o.req]
    /\ TaskEnds(c, o.result)

\* one read_until call has returned with b accumulated: break and parse, or
\* go round the loop
AfterReadUntil(c, b) ==
    IF HeaderComplete(b)
    THEN ParseReturns(c, ParseOutcome(b))
    ELSE UNCHANGED <<pc, result, req, listening>>

\* the bytes the BufReader has to hand out: what it holds, or the next segment
Available(c) == IF rbuf[c] # <<>> THEN rbuf[c] ELSE Head(sock[c])
SockAfterFill(c) == IF rbuf[c] # <<>> THEN sock[c] ELSE Tail(sock[c])

\* the mutant of ReadUntilStep: the terminator is looked for in the bytes of
\* the last read alone
ReadUntilStepLastRead(c, avail, i) ==
    IF i = 0
    THEN /\ buf' = [buf EXCEPT ![c] = buf[c] \o avail]
         /\ rbuf' = [rbuf EXCEPT ![c] = <<>>]
         /\ nread' = [nread EXCEPT ![c] = nread[c] + Len(avail)]
         /\ UNCHANGED <<pc, result, req, listening>>
    ELSE /\ buf' = [buf EXCEPT ![c] = buf[c] \o Take(avail, i)]
         /\ rbuf' = [rbuf EXCEPT ![c] = Drop(avail, i)]
         /\ nread' = [nread EXCEPT ![c] = 0]
         /\ IF HeaderComplete(Take(avail, i))
            THEN ParseReturns(c, ParseOutcome(buf[c] \o Take(avail, i)))
            ELSE UNCHANGED <<pc, result, req, listening>>

\* read_until's inner loop over the available bytes, the first "\n" of them
\* at index i (0: none): it takes them up to and including the "\n" and
\* returns, or takes them all and polls again
ReadUntilStep(c, avail, i) ==
    IF i = 0
    THEN /\ buf' = [buf EXCEPT ![c] = buf[c] \o avail]
         /\ rbuf' = [rbuf EXCEPT ![c] = <<>>]
         /\ nread' = [nread EXCEPT ![c] = nread[c] + Len(avail)]
         /\ UNCHANGED <<pc, result, req, listening>>
    ELSE /\ buf' = [buf EXCEPT ![c] = buf[c] \o Take(avail, i)]
         /\ rbuf' = [rbuf EXCEPT ![c] = Drop(avail, i)]
         /\ nread' = [nread EXCEPT ![c] = 0]
         /\ AfterReadUntil(c, buf[c] \o Take(avail, i))

ReadAvailable(c, avail) == ReadUntilStep(c, avail, FindSub(avail, <<LF>>))

ReadMore(c) ==
    /\ pc[c] = "read"
    /\ rbuf[c] # <<>> \/ sock[c] # <<>>
    /\ sock' = [sock EXCEPT ![c] = SockAfterFill(c)]
    /\ ReadAvailable(c, Available(c))
    /\ UNCHANGED <<directory, fs, backlog, input, resp, chunk, pulled, written,
                   out, after>>

\* read_until at the end of the stream: it returns what it has read, and 0
\* makes parse bail with "Incomplete request"
ReadEof(c) ==
    /\ pc[c] = "read"
    /\ rbuf[c] = <<>> /\ sock[c] = <<>>
    /\ IF nread[c] = 0
       THEN /\ pc' = [pc EXCEPT ![c] = "failed"]
            /\ result' = [result EXCEPT ![c] = "IncompleteRequest"]
            /\ TaskEnds(c, "IncompleteRequest")
            /\ UNCHANGED <<req, nread>>
       ELSE /\ nread' = [nread EXCEPT ![c] = 0]
            /\ AfterReadUntil(c, buf[c])
    /\ UNCHANGED <<directory, fs, backlog, input, sock, rbuf, buf, resp, chunk,
                   pulled, written, out, after>>


(***************************************************************************)
(* handle_request, send_response and write_body_to.                        *)
(***************************************************************************)
\* the second path segment of the request of connection c
FileName(c) == path_parts(req[c].uri)[2]

\* write_body_to runs with the target file as its sink while the POST arm
\* stores the body (no response is built yet), with the socket otherwise
SinkIsFile(c) == resp[c] = NoResponse

\* handle_request up to send_response.  The POST arm creates the directory
\* and creates or truncates the file before it copies the body.
Dispatched(c, d) ==
    CASE d.kind = "respond" ->
           /\ resp' = [resp EXCEPT ![c] = d.resp]
           /\ pc' = [pc EXCEPT ![c] = "send"]
           /\ UNCHANGED <<fs, result, listening>>
      [] d.kind = "store" ->
           /\ fs' = [dir |-> TRUE, files |-> HeaderInsert(fs.files, d.name, <<>>)]
           /\ pc' = [pc EXCEPT ![c] = "pull"]
           /\ UNCHANGED <<resp, result, listening>>
      [] d.kind = "fail" ->
           /\ pc' = [pc EXCEPT ![c] = "failed"]
           /\ result' = [result EXCEPT ![c] = d.err]
           /\ TaskEnds(c, d.err)
           /\ UNCHANGED <<fs, resp>>
      [] d.kind = "panic" ->
           /\ pc' = [pc EXCEPT ![c] = "panicked"]
           /\ result' = [result EXCEPT ![c] = "panic"]
           /\ TaskEnds(c, "panic")
           /\ UNCHANGED <<fs, resp>>

HandleRequest(c) ==
    /\ pc[c] = "handle"
    /\ after' = [after EXCEPT ![c] = {d \in Conns : pc[d] \in Terminal}]
    /\ Dispatched(c, dispatch(req[c], directory, fs.files))
    /\ UNCHANGED <<directory, backlog, input, sock, rbuf, buf, nread, req, chunk,
                   pulled, written, out>>

\* where send_response goes after the blank line: write_body_to's match
BodyStart(body) ==
    CASE body.kind = "Empty" -> "flush"
      [] body.kind = "Full" -> "body"
      [] body.kind = "Chunked" -> "pull"

\* send_response: the status line, the header lines and the blank line
SendHead(c) ==
    /\ pc[c] = "send"
    /\ out' = [out EXCEPT ![c] = out[c] \o head_writes(resp[c])]
    /\ pc' = [pc EXCEPT ![c] = BodyStart(resp[c].body)]
    /\ UNCHANGED <<directory, fs, listening, backlog, input, sock, rbuf, buf, nread,
                   req, resp, chunk, pulled, written, result, after>>

\* the mutant of full_body_events: the flush comes before the write
FullBodyFlushFirst(body) == <<FlushEv, WriteEv(body.bytes)>>

\* write_body_to, BodyType::Full: one write_all, then its flush
full_body_events(body) == <<WriteEv(body.bytes), FlushEv>>

WriteFull(c) ==
    /\ pc[c] = "body"
    /\ out' = [out EXCEPT ![c] = out[c] \o full_body_events(resp[c].body)]
    /\ pc' = [pc EXCEPT ![c] = "flush"]
    /\ UNCHANGED <<directory, fs, listening, backlog, input, sock, rbuf, buf, nread,
                   req, resp, chunk, pulled, written, result, after>>

\* the bytes the chunk source has produced so far
Produced(c) == Len(Concat(pulled[c]))

\* the limit left of reader.take(len)
Limit(c) == req[c].bodyLen - Produced(c)

\* the next chunk of the chunk source, <<>> at its end.  The request body:
\* at most the limit left, of what the BufReader holds or the next segment.
\* A file: at most ChunkCap bytes at the read offset.
\* the mutant of NextFromBody: the reader is not bounded by Content-Length
NextFromBodyUnbounded(c) ==
    IF rbuf[c] = <<>> /\ sock[c] = <<>> THEN <<>> ELSE Take(Available(c), ChunkCap)

NextFromBody(c) ==
    IF Limit(c) <= 0 \/ (rbuf[c] = <<>> /\ sock[c] = <<>>) THEN <<>>
    ELSE Take(Available(c), Min(ChunkCap, Limit(c)))

NextFromFile(c) ==
    LET content == fs.files[resp[c].body.file]
    IN  SubSeq(content, Produced(c) + 1, Min(Produced(c) + ChunkCap, Len(content)))

NextChunk(c) == IF SinkIsFile(c) THEN NextFromBody(c) ELSE NextFromFile(c)

\* the chunk source reports an error at this pull: chunk? returns it
SourceFails(c) == input[c].failAt = Len(pulled[c]) + 1

\* inner.frame().await yields Some(Err(e))
PullError(c) ==
    /\ pc[c] = "pull"
    /\ SourceFails(c)
    /\ pc' = [pc EXCEPT ![c] = "failed"]
    /\ result' = [result EXCEPT ![c] = "IOFailure"]
    /\ TaskEnds(c, "IOFailure")
    /\ UNCHANGED <<directory, fs, backlog, input, sock, rbuf, buf, nread, req, resp,
                   chunk, pulled, written, out, after>>

\* inner.frame().await yields Some(Ok(chunk))
Pulled(c, ch) ==
    /\ ch # <<>>
    /\ chunk' = [chunk EXCEPT ![c] = ch]
    /\ pulled' = [pulled EXCEPT ![c] = Append(pulled[c], ch)]
    /\ IF SinkIsFile(c)
       THEN /\ rbuf' = [rbuf EXCEPT ![c] = Drop(Available(c), Len(ch))]
            /\ sock' = [sock EXCEPT ![c] = SockAfterFill(c)]
       ELSE UNCHANGED <<rbuf, sock>>

PullChunk(c) ==
    /\ pc[c] = "pull"
    /\ ~SourceFails(c)
    /\ Pulled(c, NextChunk(c))
    /\ pc' = [pc EXCEPT ![c] = "write"]
    /\ UNCHANGED <<directory, fs, listening, backlog, input, buf, nread, req, resp,
                   written, out, result, after>>

\* the mutant of WriteChunk: the chunk goes in front of what the sink holds
WriteChunkInFront(c) ==
    /\ pc[c] = "write"
    /\ written' = [written EXCEPT ![c] = Append(written[c], chunk[c])]
    /\ chunk' = [chunk EXCEPT ![c] = <<>>]
    /\ IF SinkIsFile(c)
       THEN /\ fs' = [fs EXCEPT !.files[FileName(c)] = chunk[c] \o fs.files[FileName(c)]]
            /\ UNCHANGED out
       ELSE /\ out' = [out EXCEPT ![c] =
                         SubSeq(out[c], 1, Len(head_writes(resp[c])))
                         \o <<WriteEv(chunk[c])>>
                         \o SubSeq(out[c], Len(head_writes(resp[c])) + 1, Len(out[c]))]
            /\ UNCHANGED fs
    /\ pc' = [pc EXCEPT ![c] = "pull"]
    /\ UNCHANGED <<directory, listening, backlog, input, sock, rbuf, buf, nread, req,
                   resp, pulled, result, after>>

\* writer.write_all(chunk) on the sink
WriteChunk(c) ==
    /\ pc[c] = "write"
    /\ written' = [written EXCEPT ![c] = Append(written[c], chunk[c])]
    /\ chunk' = [chunk EXCEPT ![c] = <<>>]
    /\ IF SinkIsFile(c)
       THEN /\ fs' = [fs EXCEPT !.files[FileName(c)] =
                        WriteAt(fs.files[FileName(c)], Len(Concat(written[c])), chunk[c])]
            /\ UNCHANGED out
       ELSE /\ out' = [out EXCEPT ![c] = Append(out[c], WriteEv(chunk[c]))]
            /\ UNCHANGED fs
    /\ pc' = [pc EXCEPT ![c] = "pull"]
    /\ UNCHANGED <<directory, listening, backlog, input, sock, rbuf, buf, nread, req,
                   resp, pulled, result, after>>

\* inner.frame().await yields None: write_body_to flushes its sink and
\* returns; the POST arm then builds 201 Created with an Empty body
PullEnd(c) ==
    /\ pc[c] = "pull"
    /\ ~SourceFails(c)
    /\ NextChunk(c) = <<>>
    /\ IF SinkIsFile(c)
       THEN /\ resp' = [resp EXCEPT ![c] = Response(201, <<>>, EmptyBody)]
            /\ pc' = [pc EXCEPT ![c] = "send"]
            /\ UNCHANGED out
       ELSE /\ out' = [out EXCEPT ![c] = Append(out[c], FlushEv)]
            /\ pc' = [pc EXCEPT ![c] = "flush"]
            /\ UNCHANGED resp
    /\ UNCHANGED <<directory, fs, listening, backlog, input, sock, rbuf, buf, nread,
                   req, chunk, pulled, written, result, after>>

\* send_response's own flush, after write_body_to has returned; Ok(())
final_events == <<FlushEv>>

Flush(c) ==
    /\ pc[c] = "flush"
    /\ out' = [out EXCEPT ![c] = out[c] \o final_events]
    /\ pc' = [pc EXCEPT ![c] = "done"]
    /\ result' = [result EXCEPT ![c] = "Ok"]
    /\ TaskEnds(c, "Ok")
    /\ UNCHANGED <<directory, fs, backlog, input, sock, rbuf, buf, nread, req, resp,
                   chunk, pulled, written, after>>

Next ==
    \E c \in Conns :
        \/ Accept(c)
        \/ ReadMore(c)
        \/ ReadEof(c)
        \/ HandleRequest(c)
        \/ SendHead(c)
        \/ WriteFull(c)
        \/ PullError(c)
        \/ PullChunk(c)
        \/ WriteChunk(c)
        \/ PullEnd(c)
        \/ Flush(c)

Spec == Init /\ [][Next]_vars


(***************************************************************************)
(* What the claims speak of.                                               *)
(***************************************************************************)
Accepted(c) == pc[c] # "listen"

\* the bytes the client of connection c sends
ClientBytes(cl) == Concat(cl.segs)

\* the end of the first header terminator in a byte string, 0 without one
TerminatorEnd(bytes) ==
    IF FindSub(bytes, CRLFCRLF) = 0 THEN 0 ELSE FindSub(bytes, CRLFCRLF) + 3

HeaderBlock(bytes) == Take(bytes, TerminatorEnd(bytes))
AfterHeader(bytes) == Drop(bytes, TerminatorEnd(bytes))

\* the parse loop of connection c has ended with a request
Parsed(c) == req[c] # NoRequest

\* s is a prefix of t
IsPrefix(s, t) == Len(s) <= Len(t) /\ SubSeq(t, 1, Len(s)) = s

\* the value of a decimal numeral
IsDecimal(v) == v # <<>> /\ \A i \in DOMAIN v : v[i] \in Range(Digits)

\* the bytes of a response on the wire, written out independently of the
\* serializer: status line, header lines, blank line, body
RECURSIVE HeaderBlockBytes(_)
HeaderBlockBytes(hs) ==
    IF hs = <<>> THEN <<>>
    ELSE Head(hs)[1] \o Chars(": ") \o Head(hs)[2] \o CRLF \o HeaderBlockBytes(Tail(hs))

ReasonBytes(status) ==
    IF status = 200 THEN Chars("200 OK")
    ELSE IF status = 201 THEN Chars("201 Created")
    ELSE IF status = 404 THEN Chars("404 Not Found")
    ELSE <<>>

WireHead(r) ==
    Chars("HTTP/1.1 ") \o ReasonBytes(r.status) \o CRLF \o HeaderBlockBytes(r.headers) \o CRLF

FlushCount(evs) == Cardinality({i \in DOMAIN evs : evs[i].op = "flush"})

\* the value of header name in a response's header list, <<>> when absent
ResponseHeader(r, name) ==
    IF \E i \in DOMAIN r.headers : r.headers[i][1] = name
    THEN r.headers[CHOOSE i \in DOMAIN r.headers : r.headers[i][1] = name][2]
    ELSE <<>>

HasResponseHeader(r, name) == \E i \in DOMAIN r.headers : r.headers[i][1] = name

\* what the parser makes of a client's header block
ClientParse(cl) == PartsParse(HeaderBlock(ClientBytes(cl)))

\* connection c stores a body under this file name: its request is a POST
\* /files/<name> with a body (a connection whose request is not parsed yet
\* has not touched the file system)
WritesFile(c, name) ==
    /\ Parsed(c)
    /\ req[c].method = Chars("POST")
    /\ req[c].bodyLen > 0
    /\ Len(path_parts(req[c].uri)) >= 2
    /\ path_parts(req[c].uri)[1] = Chars("files")
    /\ path_parts(req[c].uri)[2] = name

\* the number of connections that store under this name
WriterCount(name) == Cardinality({c \in Conns : WritesFile(c, name)})

(***************************************************************************)
(* C1.  With a base directory configured, no chunk source failing and no   *)
(* other client storing under the same file name, a POST /files/<name>     *)
(* whose body is L > 0 bytes with Content-Length: L is answered 201 with   *)
(* an Empty body, and a GET /files/<name> handled after that task has      *)
(* ended is answered 200 with Content-Length L and the posted bytes as its *)
(* body.                                                                   *)
(***************************************************************************)
\* connection p serves a POST /files/<name> with a matching Content-Length
IsMatchedPost(p) ==
    /\ Parsed(p)
    /\ req[p].method = Chars("POST")
    /\ Len(path_parts(req[p].uri)) >= 2
    /\ path_parts(req[p].uri)[1] = Chars("files")
    /\ HasHeader(req[p].headers, CONTENT_LENGTH)
    /\ IsDecimal(req[p].headers[CONTENT_LENGTH])
    /\ DigitsValue(req[p].headers[CONTENT_LENGTH], 0) > 0
    /\ DigitsValue(req[p].headers[CONTENT_LENGTH], 0) = Len(AfterHeader(ClientBytes(input[p])))
    /\ input[p].failAt = 0

PostedBytes(p) == AfterHeader(ClientBytes(input[p]))

\* connection g serves a GET /files/<name> that began after p's task ended
IsLaterGet(g, p) ==
    /\ g # p
    /\ Parsed(g)
    /\ req[g].method = Chars("GET")
    /\ path_parts(req[g].uri) = <<Chars("files"), FileName(p)>>
    /\ input[g].failAt = 0
    /\ p \in after[g]

C1_PostThenGet ==
    \A p \in Conns :
        (directory /\ IsMatchedPost(p) /\ WriterCount(FileName(p)) = 1) =>
            /\ pc[p] \in Terminal =>
                 /\ pc[p] = "done"
                 /\ resp[p].body.kind = "Empty"
                 /\ BytesOf(out[p]) = Chars("HTTP/1.1 201 Created\r\n\r\n")
            /\ \A g \in Conns :
                 (IsLaterGet(g, p) /\ pc[g] \in Terminal) =>
                     /\ pc[g] = "done"
                     /\ resp[g].status = 200
                     /\ ResponseHeader(resp[g], CONTENT_LENGTH) = Dec(Len(PostedBytes(p)))
                     /\ BytesOf(out[g]) = WireHead(resp[g]) \o PostedBytes(p)

C1_Witness ==
    \E p \in Conns, g \in Conns :
        /\ directory /\ IsMatchedPost(p) /\ WriterCount(FileName(p)) = 1
        /\ IsLaterGet(g, p)
        /\ pc[g] = "done"
        /\ Len(PostedBytes(p)) > ChunkCap


(***************************************************************************)
(* C2.  After RequestParser::parse succeeds: with Content-Length absent or *)
(* 0 the request body is None; with Content-Length an integer L > 0 the    *)
(* body yields the bytes that follow the header terminator, in order, and  *)
(* never a byte beyond L: once drained it has yielded exactly the first L  *)
(* of them (all of them, should the stream end before L).                  *)
(***************************************************************************)
\* the bytes the request body of connection c has yielded so far (only the
\* POST arm of the files route reads it)
BodyRead(c) == IF req[c].method = Chars("POST") THEN Concat(pulled[c]) ELSE <<>>

\* the body of connection c has been read to its end
BodyDrained(c) == req[c].method = Chars("POST") /\ resp[c].status = 201

C2_BodyBounded ==
    \A c \in Conns :
        Parsed(c) =>
            /\ ~HasHeader(req[c].headers, CONTENT_LENGTH) => req[c].bodyLen = 0
            /\ ( /\ HasHeader(req[c].headers, CONTENT_LENGTH)
                 /\ IsDecimal(req[c].headers[CONTENT_LENGTH]) ) =>
                   /\ req[c].bodyLen = DigitsValue(req[c].headers[CONTENT_LENGTH], 0)
                   /\ IsPrefix(BodyRead(c), AfterHeader(ClientBytes(input[c])))
                   /\ Len(BodyRead(c)) <= DigitsValue(req[c].headers[CONTENT_LENGTH], 0)
                   /\ BodyDrained(c) =>
                        BodyRead(c) = Take(AfterHeader(ClientBytes(input[c])),
                                           DigitsValue(req[c].headers[CONTENT_LENGTH], 0))

C2_Witness ==
    \E c \in Conns :
        /\ Parsed(c)
        /\ HasHeader(req[c].headers, CONTENT_LENGTH)
        /\ req[c].headers[CONTENT_LENGTH] = <<"2">>
        /\ AfterHeader(ClientBytes(input[c])) = Chars("xyz")
        /\ BodyDrained(c)
        /\ BodyRead(c) = Chars("xy")

(***************************************************************************)
(* C3.  However the bytes are split across the underlying reads, the       *)
(* parser accumulates them in order and stays in its loop while the        *)
(* accumulated buffer does not end with the terminator; it leaves the loop *)
(* with exactly the bytes up to and including the first terminator, which  *)
(* it hands to the grammar; if the stream ends before a terminator the     *)
(* call fails with IncompleteRequest and never yields a request.           *)
(***************************************************************************)
C3_AccumulatesToTerminator ==
    \A c \in Conns :
        Accepted(c) =>
            /\ IsPrefix(buf[c], ClientBytes(input[c]))
            /\ pc[c] = "read" => FindSub(buf[c], CRLFCRLF) = 0
            /\ TerminatorEnd(ClientBytes(input[c])) > 0 =>
                 /\ Len(buf[c]) <= TerminatorEnd(ClientBytes(input[c]))
                 /\ result[c] # "IncompleteRequest"
                 /\ pc[c] # "read" =>
                      /\ buf[c] = HeaderBlock(ClientBytes(input[c]))
                      /\ Parsed(c) <=> ClientParse(input[c]).ok
            /\ TerminatorEnd(ClientBytes(input[c])) = 0 =>
                 /\ pc[c] \in {"read", "failed"}
                 /\ ~Parsed(c)
                 /\ pc[c] = "failed" =>
                      /\ result[c] = "IncompleteRequest"
                      /\ buf[c] = ClientBytes(input[c])

\* a terminator that straddles two reads has been recognised
C3_Witness ==
    \E c \in Conns :
        /\ Parsed(c)
        /\ Len(input[c].segs) = 2
        /\ Len(input[c].segs[1]) > TerminatorEnd(ClientBytes(input[c])) - 4
        /\ Len(input[c].segs[1]) < TerminatorEnd(ClientBytes(input[c]))

(***************************************************************************)
(* C4.  When the header block parses and the Content-Length value is       *)
(* present and not parseable as a non-negative integer, parse fails        *)
(* (MalformedContentLength) and returns no request.                        *)
(***************************************************************************)
C4_MalformedContentLengthFails ==
    \A c \in Conns :
        ( /\ pc[c] \notin {"listen", "read"}
          /\ HeaderComplete(buf[c])
          /\ PartsParse(buf[c]).ok
          /\ HasHeader(PartsParse(buf[c]).val.headers, CONTENT_LENGTH)
          /\ ~ParseU64(PartsParse(buf[c]).val.headers[CONTENT_LENGTH]).some ) =>
            /\ pc[c] = "failed"
            /\ ~Parsed(c)

(***************************************************************************)
(* C5.  A request whose start line is well-formed but carries a method     *)
(* that is not a recognised verb, or a version other than 1.1, is rejected *)
(* by the parser with an error value returned to the caller, and no        *)
(* request reaches the dispatcher.                                         *)
(***************************************************************************)
C5_UnsupportedRejected ==
    \A c \in Conns :
        ( /\ pc[c] \notin {"listen", "read"}
          /\ HeaderComplete(buf[c])
          /\ StartLineTokens(buf[c]).ok
          /\ \/ StartLineTokens(buf[c]).val.method \notin StandardMethods
             \/ StartLineTokens(buf[c]).val.version # Chars("1.1") ) =>
            /\ pc[c] = "failed"
            /\ ~Parsed(c)


(***************************************************************************)
(* C6.  Every response handle_request serializes with a Full body, on      *)
(* every route and for every status, 404 included, carries a               *)
(* Content-Length header whose value is the number of body bytes written.  *)
(***************************************************************************)
C6_FullBodyHasContentLength ==
    \A c \in Conns :
        (pc[c] = "done" /\ resp[c].body.kind = "Full") =>
            /\ HasResponseHeader(resp[c], CONTENT_LENGTH)
            /\ ResponseHeader(resp[c], CONTENT_LENGTH)
                 = Dec(Len(BytesOf(out[c])) - Len(WireHead(resp[c])))

(***************************************************************************)
(* C7.  On the echo route with a second segment, the response carries      *)
(* Content-Encoding: gzip and the gzip-compressed payload exactly when     *)
(* some token of the Accept-Encoding value, read as a list separated by    *)
(* commas and spaces however they are mixed, equals gzip ignoring ASCII    *)
(* case; otherwise the body is the raw payload with no Content-Encoding;   *)
(* either way Content-Type is text/plain and Content-Length is the length  *)
(* of the emitted body.                                                    *)
(***************************************************************************)
IsListSeparator(c) == c \in {",", " "}
IsListTokenByte(c) == ~IsListSeparator(c)

\* the tokens of a comma/space-separated list
RECURSIVE ListTokens(_)
ListTokens(v) ==
    IF v = <<>> THEN {}
    ELSE IF IsListSeparator(Head(v)) THEN ListTokens(Tail(v))
    ELSE {Take(v, PrefixLen(v, IsListTokenByte))}
         \cup ListTokens(Drop(v, PrefixLen(v, IsListTokenByte)))

ListsGzip(headers) ==
    /\ HasHeader(headers, ACCEPT_ENCODING)
    /\ \E t \in ListTokens(headers[ACCEPT_ENCODING]) : eq_ignore_ascii_case(t, Chars("gzip"))

IsEcho(c) ==
    /\ Parsed(c)
    /\ Len(path_parts(req[c].uri)) >= 2
    /\ path_parts(req[c].uri)[1] = Chars("echo")

C7_GzipWhenListed ==
    \A c \in Conns :
        (pc[c] = "done" /\ IsEcho(c)) =>
            /\ ListsGzip(req[c].headers) =>
                 /\ ResponseHeader(resp[c], CONTENT_ENCODING) = Chars("gzip")
                 /\ resp[c].body.bytes = encode_sync(path_parts(req[c].uri)[2])
            /\ ~ListsGzip(req[c].headers) =>
                 /\ ~HasResponseHeader(resp[c], CONTENT_ENCODING)
                 /\ resp[c].body.bytes = path_parts(req[c].uri)[2]
            /\ ResponseHeader(resp[c], CONTENT_TYPE) = Chars("text/plain")
            /\ ResponseHeader(resp[c], CONTENT_LENGTH) = Dec(Len(resp[c].body.bytes))
            /\ BytesOf(out[c]) = WireHead(resp[c]) \o resp[c].body.bytes

(***************************************************************************)
(* C8.  The claim as made: send_response writes the status line, every     *)
(* header line, the blank line and the body in that order, and then        *)
(* flushes the sink exactly once, after the last body byte.                *)
(***************************************************************************)
\* the body bytes of the response of connection c
BodyBytes(c) ==
    IF resp[c].body.kind = "Chunked" THEN Concat(pulled[c]) ELSE resp[c].body.bytes

C8_FlushedExactlyOnce ==
    \A c \in Conns :
        pc[c] = "done" =>
            /\ BytesOf(out[c]) = WireHead(resp[c]) \o BodyBytes(c)
            /\ FlushCount(out[c]) = 1
            /\ out[c][Len(out[c])].op = "flush"

(***************************************************************************)
(* C8 as amended.  For every response whose body source does not fail,     *)
(* send_response writes the status line, every header line, the blank line *)
(* and the body in that order; every flush comes after the last body byte  *)
(* and no write follows a flush; the sink is flushed once for an Empty     *)
(* body and twice for a Full or Streamed body (by write_body_to before it  *)
(* returns, then by send_response).                                        *)
(***************************************************************************)
C8_OrderedWritesThenFlushes ==
    \A c \in Conns :
        /\ \A i \in DOMAIN out[c], j \in DOMAIN out[c] :
             (i < j /\ out[c][i].op = "flush") => out[c][j].op = "flush"
        /\ out[c] # <<>> =>
             /\ IsPrefix(WireHead(resp[c]), BytesOf(out[c]))
             /\ IsPrefix(BytesOf(out[c]), WireHead(resp[c]) \o BodyBytes(c))
        /\ FlushCount(out[c]) > 0 => BytesOf(out[c]) = WireHead(resp[c]) \o BodyBytes(c)
        /\ pc[c] = "done" =>
             FlushCount(out[c]) = IF resp[c].body.kind = "Empty" THEN 1 ELSE 2

C8_Witness ==
    \E c \in Conns :
        /\ pc[c] = "done" /\ resp[c].body.kind = "Full" /\ FlushCount(out[c]) = 2
        /\ Len(resp[c].headers) >= 2

(***************************************************************************)
(* C9.  For a Streamed body write_body_to writes the chunks to its sink    *)
(* one at a time in the order the source produces them, chunk k+1 being    *)
(* pulled only after chunk k is written; when the source produces an error *)
(* at chunk k serialization stops: no later chunk is pulled or written,    *)
(* the sink is not flushed, and the error is returned to the caller.       *)
(***************************************************************************)
\* the write events of the body of a response on the socket
BodyWrites(c) ==
    SelectSeq(SubSeq(out[c], Len(head_writes(resp[c])) + 1, Len(out[c])),
              LAMBDA e : e.op = "write")

\* connection c has run write_body_to over a chunk source
Streams(c) == resp[c].body.kind = "Chunked" \/ pulled[c] # <<>> \/ resp[c].status = 201

C9_ChunksInOrder ==
    \A c \in Conns :
        /\ IsPrefix(written[c], pulled[c])
        /\ Len(pulled[c]) - Len(written[c]) = IF pc[c] = "write" THEN 1 ELSE 0
        /\ (resp[c].body.kind = "Chunked" /\ out[c] # <<>>) =>
             BodyWrites(c) = [i \in DOMAIN written[c] |-> WriteEv(written[c][i])]
        /\ (WritesFile(c, FileName(c)) /\ WriterCount(FileName(c)) = 1 /\ Streams(c)) =>
             fs.files[FileName(c)] = Concat(written[c])
        /\ input[c].failAt > 0 => Len(pulled[c]) < input[c].failAt
        /\ result[c] = "IOFailure" =>
             /\ pc[c] = "failed"
             /\ Len(pulled[c]) = input[c].failAt - 1
             /\ written[c] = pulled[c]
             /\ FlushCount(out[c]) = 0
        /\ (pc[c] = "done" /\ Streams(c)) =>
             (input[c].failAt = 0 \/ input[c].failAt > Len(pulled[c]) + 1)

\* the source has failed at its second chunk, after the first was written
C9_Witness ==
    \E c \in Conns :
        /\ result[c] = "IOFailure"
        /\ Len(written[c]) = 1
        /\ resp[c].body.kind = "Chunked"

(***************************************************************************)
(* C10.  A parse failure on one connection (a malformed start line or      *)
(* header, or the stream ending before the terminator) leaves no response  *)
(* byte written on that connection and ends only that connection's task:   *)
(* the accept loop goes on accepting, the failing step changes no other     *)
(* task's state, and every other connection with a valid request that has  *)
(* ended has received its complete response.                               *)
(***************************************************************************)
ParseFailed(c) == result[c] \in {"ParseFailure", "IncompleteRequest"}

\* a request the dispatcher answers whatever the file system holds: the
\* root, or a GET or a POST with a body on the files route
ValidRequest(c) ==
    /\ Parsed(c)
    /\ input[c].failAt = 0
    /\ \/ path_parts(req[c].uri) = <<>>
       \/ /\ directory
          /\ Len(path_parts(req[c].uri)) >= 2
          /\ path_parts(req[c].uri)[1] = Chars("files")
          /\ \/ req[c].method = Chars("GET")
             \/ req[c].method = Chars("POST") /\ req[c].bodyLen > 0

\* what holds in every state once a parse has failed
C10_State ==
    /\ listening
    /\ \A c \in Conns : ParseFailed(c) => (pc[c] = "failed" /\ out[c] = <<>>)
    /\ (\E c \in Conns : ParseFailed(c)) =>
          /\ backlog # <<>> => \E d \in Conns : pc[d] = "listen"
          /\ \A d \in Conns :
               (ValidRequest(d) /\ pc[d] \in Terminal) =>
                    /\ pc[d] = "done"
                    /\ BytesOf(out[d]) = WireHead(resp[d]) \o BodyBytes(d)
                    /\ out[d][Len(out[d])].op = "flush"

\* the step in which the parse of connection c fails touches nothing but c
C10_Step ==
    \A c \in Conns :
        (~ParseFailed(c) /\ ParseFailed(c)') =>
            /\ listening' /\ backlog' = backlog /\ fs' = fs
            /\ \A d \in Conns \ {c} :
                 /\ pc'[d] = pc[d] /\ out'[d] = out[d] /\ result'[d] = result[d]
                 /\ sock'[d] = sock[d] /\ rbuf'[d] = rbuf[d] /\ buf'[d] = buf[d]
                 /\ req'[d] = req[d] /\ resp'[d] = resp[d]
                 /\ pulled'[d] = pulled[d] /\ written'[d] = written[d]

C10_ParseFailureIsolated == []C10_State /\ [][C10_Step]_vars

\* a connection was answered in full after another one's parse had failed
C10_Witness ==
    \E c \in Conns, d \in Conns :
        /\ ParseFailed(c)
        /\ c \in after[d]
        /\ ValidRequest(d)
        /\ pc[d] = "done"
        /\ resp[d].status = 200
        /\ backlog = <<>>


(***************************************************************************)
(* C11.  With a base directory configured, a POST /files/<name> whose      *)
(* request carries no body (Content-Length absent or 0) fails with         *)
(* MissingBody and leaves the file system unchanged: the base directory is *)
(* not created, the target file is neither created nor truncated, and no   *)
(* response byte is written.                                               *)
(***************************************************************************)
IsBodylessPost(c) ==
    /\ Parsed(c)
    /\ directory
    /\ req[c].method = Chars("POST")
    /\ Len(path_parts(req[c].uri)) >= 2
    /\ path_parts(req[c].uri)[1] = Chars("files")
    /\ \/ ~HasHeader(req[c].headers, CONTENT_LENGTH)
       \/ req[c].headers[CONTENT_LENGTH] = Chars("0")

\* a bodyless POST that has been dispatched has failed, nothing written
C11_State ==
    \A c \in Conns :
        (IsBodylessPost(c) /\ pc[c] # "handle") =>
            /\ pc[c] = "failed"
            /\ result[c] = "MissingBody"
            /\ out[c] = <<>>
            /\ resp[c] = NoResponse
            /\ pulled[c] = <<>> /\ written[c] = <<>>

\* the step that dispatches a bodyless POST leaves the file system as it was
C11_Step ==
    \A c \in Conns :
        (IsBodylessPost(c) /\ pc[c] = "handle" /\ pc'[c] # "handle") =>
            /\ fs' = fs
            /\ out' = out
            /\ result'[c] = "MissingBody"

RespondedInFull(c) ==
    /\ pc[c] = "done"
    /\ result[c] = "Ok"
    /\ BytesOf(out[c]) = WireHead(resp[c]) \o BodyBytes(c)

ErrorReturned(c) ==
    /\ pc[c] = "failed"
    /\ result[c] \notin {"", "Ok", "panic"}
    /\ out[c] = <<>>

C12_ResponseOrError ==
    \A c \in Conns :
        (Parsed(c) /\ input[c].failAt = 0 /\ pc[c] \in Terminal) =>
            /\ RespondedInFull(c) \/ ErrorReturned(c)
            /\ ~(RespondedInFull(c) /\ ErrorReturned(c))

=============================================================================
